---- MODULE Spec2Model ----
(***************************************************************************)
(* A model of redissession: the Session container (src/session.go), the    *)
(* cryptographic envelope (src/cipher.go) and the Redis-backed store       *)
(* (src/unnamed/part_001: RedisStore.New/Save/RotateID/Destroy/load).      *)
(*                                                                         *)
(* Request handlers run in parallel against one Redis server.  A handler   *)
(* step is one stretch of local code ending in at most one Redis command   *)
(* (or one MULTI/EXEC batch); other handlers, the clock and the store's    *)
(* owner may act between the steps.                                        *)
(***************************************************************************)
EXTENDS Integers, Sequences, FiniteSets, TLC

\* ------------------------------------------------------------------ bounds
MaxIDs == 3         \* identifiers GenerateSessionID hands out in one run
MaxSteps == 5       \* calls, clock ticks and rewritten entries in one run
MaxAge == 1         \* CookieOptions.MaxAge of the deployment, in clock units
MaxCallers == 2     \* goroutines that Set and Get on one shared Session
MaxEdits == 2       \* changes made to one envelope before it is opened

\* ------------------------------------------------------- program constants
Second == 1         \* time.Second, RotateID's fallback ttl
SigLen == 32        \* HMAC-SHA256 signature width
NonceSize == 12     \* c.aead.NonceSize() of AES-GCM / ChaCha20-Poly1305
Overhead == 16      \* c.aead.Overhead(), the authentication tag

Handlers == {"h1", "h2"}
Names == {<<"a">>, <<"a", ":", "b">>}      \* session (cookie) names in use
Prefix == <<"p">>                          \* RedisStore.prefix
Keys == {"user"}                           \* keys of Session.values

\* Go values an application stores; v is kept as text so values compare.
IntOne == [t |-> "int", v |-> "1"]
FloatOne == [t |-> "float64", v |-> "1"]
Alice == [t |-> "string", v |-> "alice"]
Chan == [t |-> "chan", v |-> ""]           \* a value encoding/json rejects
Absent == [t |-> "absent", v |-> ""]       \* key not in the map (Get: nil)
Vals == {IntOne, Alice, Chan}              \* what handlers pass to Set

NoKey == "nokey"
EncKey == "ek"
Nonce == "n0"
NoID == <<>>
NoCookie == <<"-">>

\* ---------------------------------------------------------------- Session
EmptyValues == [k \in Keys |-> Absent]

NoSession ==
    [id |-> NoID, name |-> <<>>, values |-> EmptyValues, isNew |-> FALSE,
     createdAt |-> 0, updatedAt |-> 0, expiresAt |-> 0]

\* A NewSession whose maxAge is lost (a Duration of MaxAge nanoseconds).
NewSessionZeroAge(id, maxAge, t) ==
    [id |-> id, name |-> <<>>, values |-> EmptyValues, isNew |-> TRUE,
     createdAt |-> t, updatedAt |-> t, expiresAt |-> t]

\* NewSession(id, maxAge) called at time t.
NewSession(id, maxAge, t) ==
    [id |-> id, name |-> <<>>, values |-> EmptyValues, isNew |-> TRUE,
     createdAt |-> t, updatedAt |-> t, expiresAt |-> t + maxAge]

setName(s, name) == [s EXCEPT !.name = name]
setIsNew(s, v) == [s EXCEPT !.isNew = v]
setID(s, id) == [s EXCEPT !.id = id]

Set(s, key, val, t) == [s EXCEPT !.values[key] = val, !.updatedAt = t]
\* A Get that finds nothing.
GetMissing(s, key) == Absent

Get(s, key) == s.values[key]
Delete(s, key, t) == [s EXCEPT !.values[key] = Absent, !.updatedAt = t]
Refresh(s, maxAge, t) == [s EXCEPT !.expiresAt = t + maxAge, !.updatedAt = t]
\* An Extend that counts from the time of the call.
ExtendFromNow(s, delta, t) == [s EXCEPT !.expiresAt = t + delta, !.updatedAt = t]

Extend(s, delta, t) == [s EXCEPT !.expiresAt = s.expiresAt + delta, !.updatedAt = t]

\* ------------------------------------------------------- encoding/json
\* json.Marshal of an interface{} value: Go ints and floats both become a
\* JSON number, strings a JSON string; a chan is an UnsupportedTypeError.
jsonMarshalValue(g) ==
    IF g.t \in {"int", "float64"} THEN [j |-> "number", v |-> g.v]
    ELSE IF g.t = "string" THEN [j |-> "string", v |-> g.v]
    ELSE [j |-> "absent", v |-> ""]

\* json.Unmarshal into interface{}: every JSON number comes back a float64.
jsonUnmarshalValue(j) ==
    IF j.j = "number" THEN [t |-> "float64", v |-> j.v]
    ELSE IF j.j = "string" THEN [t |-> "string", v |-> j.v]
    ELSE Absent

Marshalable(s) == \A k \in Keys : s.values[k].t # "chan"

\* Session.MarshalJSON: the sessionDTO; isNew is not part of it.
MarshalJSON(s) ==
    [obj |-> "session", id |-> s.id, name |-> s.name,
     values |-> [k \in Keys |-> jsonMarshalValue(s.values[k])],
     createdAt |-> s.createdAt, updatedAt |-> s.updatedAt,
     expiresAt |-> s.expiresAt]

\* Session.UnmarshalJSON: copies the DTO and clears isNew.
UnmarshalJSON(d) ==
    [id |-> d.id, name |-> d.name,
     values |-> [k \in Keys |-> jsonUnmarshalValue(d.values[k])],
     isNew |-> FALSE,
     createdAt |-> d.createdAt, updatedAt |-> d.updatedAt,
     expiresAt |-> d.expiresAt]

\* A JSON document that is no session object (what another user of the same
\* Crypto may have sealed).
ForeignJSON ==
    [obj |-> "string", id |-> NoID, name |-> <<>>,
     values |-> [k \in Keys |-> jsonMarshalValue(Absent)],
     createdAt |-> 0, updatedAt |-> 0, expiresAt |-> 0]

\* Bytes of the serialized document, as a count that grows with its content.
jsonLen(d) == 2 + Cardinality({k \in Keys : d.values[k].j # "absent"})

\* ------------------------------------------------------------- Crypto
\* The envelope is kept symbolic: a sealed box records the key, nonce and
\* associated data it was sealed under, and whether its tag is still intact;
\* a signature records the signing key and the bytes it was computed over.
NoBox == [k |-> NoKey, n |-> "", aad |-> <<>>, pt |-> ForeignJSON, tag |-> FALSE]
NoSig == [hk |-> NoKey, nonce |-> "", box |-> NoBox]

\* c.aead.Seal(nonce, nonce, jsonData, aad), without the nonce prefix.
Seal(key, nonce, pt, aad) ==
    [k |-> key, n |-> nonce, aad |-> aad, pt |-> pt, tag |-> TRUE]

\* A buggy Open that does not authenticate the associated data.
OpenNoAAD(key, nonce, box, aad) == box.k = key /\ box.n = nonce /\ box.tag

\* c.aead.Open(nil, nonce, ciphertext, aad) succeeds.
Open(key, nonce, box, aad) ==
    box.k = key /\ box.n = nonce /\ box.aad = aad /\ box.tag

\* Crypto.sign: HMAC-SHA256 of nonce || ciphertext under the signing key.
sign(sk, nonce, box) == [hk |-> sk, nonce |-> nonce, box |-> box]

\* Crypto.verify: constant-time comparison with the expected signature.
verify(sk, nonce, box, signature) == signature = sign(sk, nonce, box)

NoText == [b64 |-> FALSE, len |-> 0, sig |-> NoSig, nonce |-> "", box |-> NoBox]

\* The text EncryptAndSign produces for an already serialized document.
Envelope(doc, aad, sk) ==
    LET box == Seal(EncKey, Nonce, doc, aad)
        n == NonceSize + Overhead + jsonLen(doc)
    IN  IF sk # NoKey
        THEN [b64 |-> TRUE, len |-> SigLen + n, sig |-> sign(sk, Nonce, box),
              nonce |-> Nonce, box |-> box]
        ELSE [b64 |-> TRUE, len |-> n, sig |-> NoSig, nonce |-> Nonce, box |-> box]

\* Crypto.EncryptAndSign(session, aad): json.Marshal, seal, sign, base64.
EncryptAndSign(s, aad, sk) ==
    IF ~Marshalable(s) THEN [err |-> "ErrMarshal", text |-> NoText]
    ELSE [err |-> "nil", text |-> Envelope(MarshalJSON(s), aad, sk)]

\* Crypto.DecryptAndVerify(text, &session, aad), the checks in source order.
DecryptAndVerify(text, aad, sk) ==
    LET minLength == IF sk # NoKey THEN SigLen + NonceSize + Overhead + 1
                     ELSE NonceSize + Overhead + 1
        fail(e) == [err |-> e, session |-> NoSession]
    IN  IF ~text.b64 THEN fail("ErrBase64")
        ELSE IF text.len < minLength THEN fail("ErrInvalidSessionData")
        ELSE IF sk # NoKey /\ ~verify(sk, text.nonce, text.box, text.sig)
             THEN fail("ErrSignatureInvalid")
        ELSE IF ~Open(EncKey, text.nonce, text.box, aad)
             THEN fail("ErrEncryptionFailed")
        ELSE IF text.box.pt.obj # "session" THEN fail("ErrUnmarshal")
        ELSE [err |-> "nil", session |-> UnmarshalJSON(text.box.pt)]

\* What the owner of the store (or a fault in it) can turn a stored text
\* into without knowing the keys, plus one foreign but validly sealed text.
TamperKinds == {"badb64", "short", "sig", "ct", "json"}
\* Further changes of a text: a nonce byte, the last three bytes cut off,
\* three bytes appended, the last character replaced by one that differs in
\* the bits base64 does not use, and the same document sealed under another
\* encryption key.
TextEdits == TamperKinds \cup {"nonce", "truncate", "append", "lastbits", "otherkey"}
Tampered(text, kind, aad, sk) ==
    CASE kind = "badb64" -> [text EXCEPT !.b64 = FALSE]
      [] kind = "short" -> [text EXCEPT !.len = NonceSize + Overhead]
      [] kind = "sig" -> [text EXCEPT !.sig.hk = "forged"]
      [] kind = "ct" -> [text EXCEPT !.box.tag = FALSE]
      [] kind = "json" -> Envelope(ForeignJSON, aad, sk)
      [] kind = "nonce" -> [text EXCEPT !.nonce = "n1"]
      [] kind = "truncate" -> [text EXCEPT !.len = @ - 3, !.box.tag = FALSE]
      [] kind = "append" -> [text EXCEPT !.len = @ + 3, !.box.tag = FALSE]
      [] kind = "lastbits" ->
            \* base64.StdEncoding is not Strict: with len % 3 # 0 the last
            \* character carries bits DecodeString ignores
            IF text.len % 3 # 0 THEN text ELSE [text EXCEPT !.box.tag = FALSE]
      [] kind = "otherkey" ->
            LET b == [text.box EXCEPT !.k = "ek2"]
            IN  [text EXCEPT !.box = b,
                             !.sig = IF sk # NoKey THEN sign(sk, text.nonce, b) ELSE NoSig]

\* ------------------------------------------------------------- Redis
\* The server's keyspace: key -> [text, exp] with exp the absolute expiry.
\* by and src are history: which operation wrote the entry, and the
\* in-memory session it serialized.
redisKey(name, sessionID) == Prefix \o name \o <<":">> \o sessionID

Entry(text, ttl, t, by, src) ==
    [text |-> text, exp |-> t + ttl, ttl |-> ttl, by |-> by, src |-> src]

Has(st, t, key) == key \in DOMAIN st /\ t < st[key].exp

\* SET key value PX ttl NX: an existing entry is kept.
redisSetNX(st, key, e) ==
    [k \in DOMAIN st \cup {key} |-> IF k \in DOMAIN st THEN st[k] ELSE e]

\* SET key value PX ttl
redisSet(st, key, e) == [k \in DOMAIN st \cup {key} |-> IF k = key THEN e ELSE st[k]]
\* A DEL the server acknowledges without removing the key.
redisDelKeeps(st, key) == st

\* DEL key
redisDel(st, key) == [k \in DOMAIN st \ {key} |-> st[k]]
\* keys whose expiry has passed are gone
redisExpire(st, t) == [k \in {x \in DOMAIN st : t < st[x].exp} |-> st[k]]
EmptyStore == [k \in {} |-> 0]

SetCmd(key, e) == [cmd |-> "SET", key |-> key, e |-> e]
DelCmd(key) == [cmd |-> "DEL", key |-> key, e |-> 0]
ApplyCmd(st, c) == IF c.cmd = "SET" THEN redisSet(st, c.key, c.e) ELSE redisDel(st, c.key)
\* one batch is executed by the server without interleaving
RECURSIVE ApplyBatch(_, _)
ApplyBatch(st, batch) ==
    IF batch = <<>> THEN st ELSE ApplyBatch(ApplyCmd(st, Head(batch)), Tail(batch))

\* ------------------------------------------------------------- state
VARIABLES
    now,          \* the clock every time.Now() and the Redis server read
    store,        \* the Redis keyspace
    nextID,       \* how many identifiers GenerateSessionID has produced
    signingKey,   \* Crypto.signingKey: NoKey (nil) or a key
    route,        \* per handler: the session name its code passes to New
    pc,           \* per handler: where it stands in a store operation
    sess,         \* per handler: its *Session (NoSession: none yet)
    loc,          \* per handler: locals of the operation in progress
    res,          \* per handler: what its last finished operation returned
    ops,          \* calls started, clock ticks and entries rewritten so far
    retired,      \* history: (name, id) pairs a successful RotateID replaced
    shared,       \* one *Session that several goroutines use at once
    mu,           \* its sync.RWMutex: the writer and the readers holding it
    gpc,          \* per goroutine: where it stands in Set / Get / ID
    snap,         \* per goroutine: the map contents its insert started from
    got,          \* per goroutine: what its Get (or ID) returned
    plan,         \* per caller: whether it uses a key of its own or "user"
    env           \* one value on its way through EncryptAndSign / DecryptAndVerify

storeVars == <<now, store, nextID, signingKey, route, pc, sess, loc, res, ops, retired>>
goVars == <<shared, mu, gpc, snap, got, plan>>
vars == <<storeVars, goVars, env>>

IdChars == <<"1", "2", "3", "4", "5", "6", "7", "8">>
\* A generator derived from predictable input: every call returns the
\* same value.
GenerateSessionIDFixed(n) == <<IdChars[1]>>

\* Crypto.GenerateSessionID: 256 random bits, base64url (no ':'); the n-th
\* call returns a value no earlier call returned.
GenerateSessionID(n) == <<IdChars[n]>>
Issued == {GenerateSessionID(n) : n \in 1..(nextID - 1)}
\* Cookie values a client may send: an issued identifier, or a crafted one.
CookieVals == Issued \cup {<<"b", ":">> \o i : i \in Issued}

NoLoc ==
    [name |-> <<>>, key |-> <<>>, oldID |-> NoID, oldKey |-> <<>>, ttl |-> 0,
     text |-> NoText, step |-> 0, hadOld |-> FALSE]
NoRes ==
    [op |-> "none", err |-> "nil", loadErr |-> "nil", oldID |-> NoID,
     hadOld |-> FALSE, cookie |-> NoCookie]

\* A comparison that never finds a time passed.
AfterNever(t, u) == FALSE

\* time.Time.After
After(t, u) == t > u

\* Handlers are interchangeable, so the name h1 uses is fixed; the other
\* handler serves the same name or a different one.
Routes == {r \in [Handlers -> Names] : r["h1"] = <<"a", ":", "b">>}

Base ==
    /\ now = 0
    /\ store = EmptyStore
    /\ nextID = 1
    /\ signingKey \in {NoKey, "sk"}
    /\ route \in Routes
    /\ pc = [h \in Handlers |-> "idle"]
    /\ sess = [h \in Handlers |-> NoSession]
    /\ loc = [h \in Handlers |-> NoLoc]
    /\ res = [h \in Handlers |-> NoRes]
    /\ ops = 0
    /\ retired = {}

\* ------------------------------------------- one Session, many goroutines
Callers == 1..MaxCallers                   \* each runs Set(key, i); Get(key)
Readers == {0}                             \* runs ID()
Goroutines == Callers \cup Readers
SharedKeys == {"user"} \cup {ToString(i) : i \in Callers}
CallerKey(i) == IF plan[i] = "own" THEN ToString(i) ELSE "user"
IntVal(i) == [t |-> "int", v |-> ToString(i)]

\* sync.RWMutex: w is the goroutine holding the write lock (NoHolder: none),
\* r the goroutines holding the read lock.
NoHolder == -1
Unlocked == [w |-> NoHolder, r |-> {}]
\* A Lock that excludes nobody.
CanLockAlways(m) == TRUE
\* s.mu.Lock() returns
CanLock(m) == m.w = NoHolder /\ m.r = {}
\* s.mu.RLock() returns
CanRLock(m) == m.w = NoHolder

NoSnap == [k \in SharedKeys |-> Absent]
\* session := NewSession("test-id", time.Hour)
TestSession ==
    [NewSession(<<"t">>, MaxAge, 0) EXCEPT !.values = [k \in SharedKeys |-> Absent]]

\* The goroutine part is at rest while the store part runs.
GoIdle ==
    /\ shared = NoSession
    /\ mu = Unlocked
    /\ gpc = [g \in Goroutines |-> "done"]
    /\ snap = [g \in Goroutines |-> NoSnap]
    /\ got = [g \in Goroutines |-> Absent]
    /\ plan = [i \in Callers |-> "user"]

\* The value, its associated data, the text, the changes made to the text,
\* the associated data given to DecryptAndVerify and what it returned.
NoEnv ==
    [phase |-> "none", v |-> NoSession, aad |-> <<>>, text |-> NoText,
     encErr |-> "nil", edits |-> <<>>, daad |-> <<>>,
     out |-> [err |-> "nil", session |-> NoSession]]

Init == Base /\ GoIdle /\ env = NoEnv

Begin(h) == pc[h] = "idle" /\ ops < MaxSteps /\ ops' = ops + 1
HasSession(h) == sess[h].id # NoID

\* ------------------------------------------------------------- resolve
\* A load whose expiry test is missing.
loadNoExpiry(st, t, name, sessionID, sk, up) ==
    LET key == redisKey(name, sessionID)
        d == DecryptAndVerify(st[key].text, name, sk)
    IN  IF ~up THEN [err |-> "ErrConn", session |-> NoSession]
        ELSE IF ~Has(st, t, key) THEN [err |-> "ErrSessionNotFound", session |-> NoSession]
        ELSE d

\* RedisStore.load up to its return or its Del: client.Get (up: the server
\* answered), DecryptAndVerify with the name as associated data, expiry test.
load(st, t, name, sessionID, sk, up) ==
    LET key == redisKey(name, sessionID)
        d == DecryptAndVerify(st[key].text, name, sk)
    IN  IF ~up THEN [err |-> "ErrConn", session |-> NoSession]
        ELSE IF ~Has(st, t, key) THEN [err |-> "ErrSessionNotFound", session |-> NoSession]
        ELSE IF d.err # "nil" THEN d
        ELSE IF After(t, d.session.expiresAt)
             THEN [err |-> "ErrSessionExpired", session |-> NoSession]
        ELSE d

\* New, from "if session == nil": a fresh identifier and a fresh Session.
\* Every load error takes this path; New returns nil as its error.
Create(h, name, loadErr) ==
    /\ nextID <= MaxIDs
    /\ nextID' = nextID + 1
    /\ sess' = [sess EXCEPT ![h] =
                    setName(setIsNew(NewSession(GenerateSessionID(nextID), MaxAge, now), TRUE), name)]
    /\ res' = [res EXCEPT ![h] = [NoRes EXCEPT !.op = "New", !.loadErr = loadErr]]
    /\ pc' = [pc EXCEPT ![h] = "idle"]
    /\ loc' = [loc EXCEPT ![h] = NoLoc]

\* RedisStore.New / Get, up to the point where load issues its Del.
\* up: the server answers load's Get.
New(h, name, cookie, up) ==
    /\ Begin(h)
    /\ name = route[h]
    /\ UNCHANGED <<now, store, signingKey, route, retired, goVars, env>>
    /\ IF cookie = NoCookie
       THEN up /\ Create(h, name, "NoCookie")
       ELSE LET r == load(store, now, name, cookie, signingKey, up)
            IN  IF r.err = "nil"
                THEN /\ sess' = [sess EXCEPT ![h] = setName(setIsNew(r.session, FALSE), name)]
                     /\ res' = [res EXCEPT ![h] = [NoRes EXCEPT !.op = "New"]]
                     /\ UNCHANGED <<nextID, pc, loc>>
                ELSE IF r.err = "ErrSessionExpired"
                THEN /\ pc' = [pc EXCEPT ![h] = "load_del"]
                     /\ loc' = [loc EXCEPT ![h] =
                                   [NoLoc EXCEPT !.name = name, !.key = redisKey(name, cookie)]]
                     /\ res' = [res EXCEPT ![h] = NoRes]
                     /\ UNCHANGED <<nextID, sess>>
                ELSE Create(h, name, r.err)

\* A cleanup that renews the entry it read where load deletes it.
loadDelRenew(h, up) ==
    /\ pc[h] = "load_del"
    /\ store' = IF up /\ loc[h].key \in DOMAIN store
                THEN [store EXCEPT ![loc[h].key].exp = now + MaxAge, ![loc[h].key].by = "load"]
                ELSE store
    /\ Create(h, loc[h].name, "ErrSessionExpired")
    /\ UNCHANGED <<now, signingKey, route, ops, retired, goVars, env>>

\* load's "s.client.Del(ctx, key)" (its result is dropped), then the rest of
\* New.  up: the Del reaches the server.
loadDelUp(h, up) ==
    /\ pc[h] = "load_del"
    /\ store' = IF up THEN redisDel(store, loc[h].key) ELSE store
    /\ Create(h, loc[h].name, "ErrSessionExpired")
    /\ UNCHANGED <<now, signingKey, route, ops, retired, goVars, env>>

loadDel(h) == \E up \in BOOLEAN : loadDelUp(h, up)

\* ------------------------------------------------- Session mutators
Local(h) ==
    /\ Begin(h)
    /\ HasSession(h)
    /\ res' = [res EXCEPT ![h] = NoRes]
    /\ UNCHANGED <<now, store, nextID, signingKey, route, pc, loc, retired, goVars, env>>

SessionSet(h, k, v) == Local(h) /\ sess' = [sess EXCEPT ![h] = Set(@, k, v, now)]
SessionDelete(h, k) == Local(h) /\ sess' = [sess EXCEPT ![h] = Delete(@, k, now)]
SessionRefresh(h) == Local(h) /\ sess' = [sess EXCEPT ![h] = Refresh(@, MaxAge, now)]
SessionExtend(h, delta) == Local(h) /\ sess' = [sess EXCEPT ![h] = Extend(@, delta, now)]

\* ------------------------------------------------------------- Save
Finish(h, r) ==
    /\ res' = [res EXCEPT ![h] = r]
    /\ pc' = [pc EXCEPT ![h] = "idle"]
    /\ loc' = [loc EXCEPT ![h] = NoLoc]

\* A Save that encrypts and writes whatever the remaining lifetime is.
SavePrepareNoCheck(s, t, sk) ==
    LET enc == EncryptAndSign(s, s.name, sk)
    IN  [err |-> enc.err, key |-> redisKey(s.name, s.id),
         ttl |-> s.expiresAt - t, text |-> enc.text]

\* RedisStore.Save before client.Set: key, ttl := time.Until(expiresAt),
\* ErrSessionExpired if ttl <= 0, EncryptAndSign with the name as aad.
SavePrepare(s, t, sk) ==
    LET key == redisKey(s.name, s.id)
        ttl == s.expiresAt - t
        enc == EncryptAndSign(s, s.name, sk)
    IN  IF ttl <= 0
        THEN [err |-> "ErrSessionExpired", key |-> key, ttl |-> ttl, text |-> NoText]
        ELSE [err |-> enc.err, key |-> key, ttl |-> ttl, text |-> enc.text]

Save(h) ==
    /\ Begin(h)
    /\ HasSession(h)
    /\ LET p == SavePrepare(sess[h], now, signingKey)
       IN  IF p.err # "nil"
           THEN Finish(h, [NoRes EXCEPT !.op = "Save", !.err = p.err])
           ELSE /\ pc' = [pc EXCEPT ![h] = "save_set"]
                /\ loc' = [loc EXCEPT ![h] =
                              [NoLoc EXCEPT !.key = p.key, !.ttl = p.ttl, !.text = p.text]]
                /\ res' = [res EXCEPT ![h] = NoRes]
    /\ UNCHANGED <<now, store, nextID, signingKey, route, sess, retired, goVars, env>>

\* A Save that sets the cookie before it looks at client.Set's error.
SaveSetCookieFirst(h) ==
    /\ pc[h] = "save_set"
    /\ \E up \in BOOLEAN :
          IF up
          THEN /\ store' = redisSet(store, loc[h].key,
                                    Entry(loc[h].text, loc[h].ttl, now, "Save", sess[h]))
               /\ Finish(h, [NoRes EXCEPT !.op = "Save", !.cookie = sess[h].id])
          ELSE /\ store' = store
               /\ Finish(h, [NoRes EXCEPT !.op = "Save", !.err = "ErrConn",
                                           !.cookie = sess[h].id])
    /\ UNCHANGED <<now, nextID, signingKey, route, sess, ops, retired, goVars, env>>

\* client.Set(ctx, key, encrypted, ttl), then the cookie.
SaveSet(h) ==
    /\ pc[h] = "save_set"
    /\ \E up \in BOOLEAN :
          IF up
          THEN /\ store' = redisSet(store, loc[h].key,
                                    Entry(loc[h].text, loc[h].ttl, now, "Save", sess[h]))
               /\ Finish(h, [NoRes EXCEPT !.op = "Save", !.cookie = sess[h].id])
          ELSE /\ store' = store
               /\ Finish(h, [NoRes EXCEPT !.op = "Save", !.err = "ErrConn"])
    /\ UNCHANGED <<now, nextID, signingKey, route, sess, ops, retired, goVars, env>>

\* ------------------------------------------------------------- RotateID
\* The same two commands sent delete first and not as one transaction.
DeleteThenWrite(newKey, e, oldKey) == << <<DelCmd(oldKey)>>, <<SetCmd(newKey, e)>> >>

\* pipe := TxPipeline(); pipe.Set(newKey); pipe.Del(oldKey); pipe.Exec():
\* the batches the server executes, each without interleaving.  MULTI/EXEC
\* makes it one batch.
TxPipeline(newKey, e, oldKey) == << <<SetCmd(newKey, e), DelCmd(oldKey)>> >>

\* ttl := time.Until(expiresAt); if ttl <= 0 { ttl = time.Second }
RotateTTL(s, t) == IF s.expiresAt - t <= 0 THEN Second ELSE s.expiresAt - t

\* RotateID before the pipeline: new identifier, setID, ttl, EncryptAndSign.
RotateID(h) ==
    /\ Begin(h)
    /\ HasSession(h)
    /\ nextID <= MaxIDs
    /\ nextID' = nextID + 1
    /\ LET oldID == sess[h].id
           s2 == setID(sess[h], GenerateSessionID(nextID))
           enc == EncryptAndSign(s2, s2.name, signingKey)
       IN  /\ sess' = [sess EXCEPT ![h] = s2]
           /\ IF enc.err # "nil"
              THEN Finish(h, [NoRes EXCEPT !.op = "RotateID", !.err = enc.err, !.oldID = oldID])
              ELSE /\ pc' = [pc EXCEPT ![h] = "rot_exec"]
                   /\ loc' = [loc EXCEPT ![h] =
                                 [NoLoc EXCEPT !.oldID = oldID,
                                               !.oldKey = redisKey(s2.name, oldID),
                                               !.key = redisKey(s2.name, s2.id),
                                               !.ttl = RotateTTL(s2, now),
                                               !.text = enc.text, !.step = 1]]
                   /\ res' = [res EXCEPT ![h] = NoRes]
    /\ UNCHANGED <<now, store, signingKey, route, retired, goVars, env>>

\* pipe.Exec(ctx), then the cookie.  hadOld records whether the old key held
\* an entry when Exec began.
RotateExec(h) ==
    /\ pc[h] = "rot_exec"
    /\ LET l == loc[h]
           batches == TxPipeline(l.key, Entry(l.text, l.ttl, now, "RotateID", sess[h]), l.oldKey)
           had == IF l.step = 1 THEN Has(store, now, l.oldKey) ELSE l.hadOld
       IN  \E up \in BOOLEAN :
           IF ~up
           THEN /\ Finish(h, [NoRes EXCEPT !.op = "RotateID", !.err = "ErrConn",
                                           !.oldID = l.oldID, !.hadOld = had])
                /\ UNCHANGED <<store, retired>>
           ELSE /\ store' = ApplyBatch(store, batches[l.step])
                /\ IF l.step = Len(batches)
                   THEN /\ Finish(h, [NoRes EXCEPT !.op = "RotateID", !.oldID = l.oldID,
                                                   !.hadOld = had, !.cookie = sess[h].id])
                        /\ retired' = retired \cup {<<sess[h].name, l.oldID>>}
                   ELSE /\ loc' = [loc EXCEPT ![h] = [l EXCEPT !.step = @ + 1, !.hadOld = had]]
                        /\ UNCHANGED <<pc, res, retired>>
    /\ UNCHANGED <<now, nextID, signingKey, route, sess, ops, goVars, env>>

\* ------------------------------------------------------------- Destroy
\* client.Del(ctx, key), then the removal cookie (empty value).
Destroy(h) ==
    /\ Begin(h)
    /\ HasSession(h)
    /\ \E up \in BOOLEAN :
          IF up
          THEN /\ store' = redisDel(store, redisKey(sess[h].name, sess[h].id))
               /\ Finish(h, [NoRes EXCEPT !.op = "Destroy", !.cookie = <<>>])
          ELSE /\ store' = store
               /\ Finish(h, [NoRes EXCEPT !.op = "Destroy", !.err = "ErrConn"])
    /\ UNCHANGED <<now, nextID, signingKey, route, sess, retired, goVars, env>>

\* ------------------------------------------------------------- environment
\* Time passes; the server drops the keys whose expiry has come.
Tick ==
    /\ ops < MaxSteps
    /\ ops' = ops + 1
    /\ now' = now + 1
    /\ store' = redisExpire(store, now + 1)
    /\ UNCHANGED <<nextID, signingKey, route, pc, sess, loc, res, retired, goVars, env>>

\* The store's owner rewrites one stored text.
Tamper(key, kind) ==
    /\ ops < MaxSteps
    /\ ops' = ops + 1
    /\ key \in DOMAIN store
    /\ kind = "sig" => signingKey # NoKey
    /\ store' = [store EXCEPT ![key] =
                    [@ EXCEPT !.text = Tampered(@, kind, store[key].src.name, signingKey),
                              !.by = "Tamper"]]
    /\ UNCHANGED <<now, nextID, signingKey, route, pc, sess, loc, res, retired, goVars, env>>

Deltas == {1}

Next ==
    \/ \E h \in Handlers, name \in Names, cookie \in CookieVals \cup {NoCookie},
          up \in BOOLEAN : New(h, name, cookie, up)
    \/ \E h \in Handlers : loadDel(h)
    \/ \E h \in Handlers, k \in Keys, v \in Vals : SessionSet(h, k, v)
    \/ \E h \in Handlers, k \in Keys : SessionDelete(h, k)
    \/ \E h \in Handlers : SessionRefresh(h)
    \/ \E h \in Handlers, d \in Deltas : SessionExtend(h, d)
    \/ \E h \in Handlers : Save(h)
    \/ \E h \in Handlers : SaveSet(h)
    \/ \E h \in Handlers : RotateID(h)
    \/ \E h \in Handlers : RotateExec(h)
    \/ \E h \in Handlers : Destroy(h)
    \/ Tick
    \/ \E key \in DOMAIN store, kind \in TamperKinds : Tamper(key, kind)

Spec == Init /\ [][Next]_vars

\* ---------------------- the store after a rotation of an expired session
\* The state Spec is in after h1's New, MaxAge + Second ticks of the clock
\* and h1's RotateID: the store holds, for one second, the entry of a
\* session whose expiresAt has passed.  The count of steps starts anew.
RotatedID == GenerateSessionID(2)
RotatedSession(name) ==
    setID(setName(setIsNew(NewSession(GenerateSessionID(1), MaxAge, 0), TRUE), name), RotatedID)
RotatedAt == MaxAge + Second

InitCleanup ==
    /\ now = RotatedAt
    /\ signingKey \in {NoKey, "sk"}
    /\ route \in Routes
    /\ LET s2 == RotatedSession(route["h1"])
           enc == EncryptAndSign(s2, s2.name, signingKey)
       IN  /\ sess = [h \in Handlers |-> IF h = "h1" THEN s2 ELSE NoSession]
           /\ store = redisSet(EmptyStore, redisKey(s2.name, s2.id),
                               Entry(enc.text, RotateTTL(s2, RotatedAt), RotatedAt,
                                     "RotateID", s2))
           /\ res = [h \in Handlers |->
                        IF h = "h1"
                        THEN [NoRes EXCEPT !.op = "RotateID",
                                           !.oldID = GenerateSessionID(1),
                                           !.cookie = s2.id]
                        ELSE NoRes]
           /\ retired = {<<s2.name, GenerateSessionID(1)>>}
    /\ nextID = 3
    /\ pc = [h \in Handlers |-> "idle"]
    /\ loc = [h \in Handlers |-> NoLoc]
    /\ ops = 0
    /\ GoIdle
    /\ env = NoEnv

SpecCleanup == InitCleanup /\ [][Next]_vars

\* ------------------------------- goroutines on one Session (session.go)
InitShared ==
    /\ now = 0
    /\ store = EmptyStore
    /\ nextID = 1
    /\ signingKey = NoKey
    /\ route = [h \in Handlers |-> <<"a", ":", "b">>]
    /\ pc = [h \in Handlers |-> "idle"]
    /\ sess = [h \in Handlers |-> NoSession]
    /\ loc = [h \in Handlers |-> NoLoc]
    /\ res = [h \in Handlers |-> NoRes]
    /\ ops = 0
    /\ retired = {}
    /\ shared = TestSession
    /\ mu = Unlocked
    /\ gpc = [g \in Goroutines |-> IF g \in Callers THEN "set" ELSE "id"]
    /\ snap = [g \in Goroutines |-> NoSnap]
    /\ got = [g \in Goroutines |-> Absent]
    /\ plan \in [Callers -> {"own", "user"}]
    /\ env = NoEnv

GoTo(g, from, to) == gpc[g] = from /\ gpc' = [gpc EXCEPT ![g] = to]

\* Session.Set: s.mu.Lock()
SetLock(i) ==
    /\ GoTo(i, "set", "set_load")
    /\ CanLock(mu)
    /\ mu' = [mu EXCEPT !.w = i]
    /\ UNCHANGED <<storeVars, shared, snap, got, plan, env>>

\* s.values[key] = val: the insert starts from the map as it is ...
SetLoad(i) ==
    /\ GoTo(i, "set_load", "set_store")
    /\ snap' = [snap EXCEPT ![i] = shared.values]
    /\ UNCHANGED <<storeVars, shared, mu, got, plan, env>>

\* ... and leaves that map with the key set; s.updatedAt = time.Now()
SetStore(i) ==
    /\ GoTo(i, "set_store", "set_unlock")
    /\ shared' = Set([shared EXCEPT !.values = snap[i]], CallerKey(i), IntVal(i), now)
    /\ UNCHANGED <<storeVars, mu, snap, got, plan, env>>

\* defer s.mu.Unlock()
SetUnlock(i) ==
    /\ GoTo(i, "set_unlock", "get")
    /\ mu' = [mu EXCEPT !.w = NoHolder]
    /\ UNCHANGED <<storeVars, shared, snap, got, plan, env>>

\* Session.Get: s.mu.RLock()
GetRLock(i) ==
    /\ GoTo(i, "get", "get_read")
    /\ CanRLock(mu)
    /\ mu' = [mu EXCEPT !.r = @ \cup {i}]
    /\ UNCHANGED <<storeVars, shared, snap, got, plan, env>>

\* return s.values[key]
GetRead(i) ==
    /\ GoTo(i, "get_read", "get_unlock")
    /\ got' = [got EXCEPT ![i] = Get(shared, CallerKey(i))]
    /\ UNCHANGED <<storeVars, shared, mu, snap, plan, env>>

\* defer s.mu.RUnlock()
GetRUnlock(i) ==
    /\ GoTo(i, "get_unlock", "done")
    /\ mu' = [mu EXCEPT !.r = @ \ {i}]
    /\ UNCHANGED <<storeVars, shared, snap, got, plan, env>>

\* Session.ID: s.mu.RLock()
IDRLock(g) ==
    /\ GoTo(g, "id", "id_read")
    /\ CanRLock(mu)
    /\ mu' = [mu EXCEPT !.r = @ \cup {g}]
    /\ UNCHANGED <<storeVars, shared, snap, got, plan, env>>

\* return s.id
IDRead(g) ==
    /\ GoTo(g, "id_read", "id_unlock")
    /\ got' = [got EXCEPT ![g] = [t |-> "id", v |-> shared.id]]
    /\ UNCHANGED <<storeVars, shared, mu, snap, plan, env>>

\* defer s.mu.RUnlock()
IDRUnlock(g) ==
    /\ GoTo(g, "id_unlock", "done")
    /\ mu' = [mu EXCEPT !.r = @ \ {g}]
    /\ UNCHANGED <<storeVars, shared, snap, got, plan, env>>

NextShared ==
    \/ \E i \in Callers : SetLock(i)
    \/ \E i \in Callers : SetLoad(i)
    \/ \E i \in Callers : SetStore(i)
    \/ \E i \in Callers : SetUnlock(i)
    \/ \E i \in Callers : GetRLock(i)
    \/ \E i \in Callers : GetRead(i)
    \/ \E i \in Callers : GetRUnlock(i)
    \/ \E g \in Readers : IDRLock(g)
    \/ \E g \in Readers : IDRead(g)
    \/ \E g \in Readers : IDRUnlock(g)

SpecShared == InitShared /\ [][NextShared]_vars

\* --------------------- EncryptAndSign / DecryptAndVerify on their own
\* The values handed to EncryptAndSign: a session with one of the Go values
\* under "user", or without it.
CryptoValues ==
    LET base == setName(NewSession(GenerateSessionID(1), MaxAge, 0), <<"a">>)
    IN  {base} \cup {Set(base, "user", x, 0) : x \in Vals}

InitCrypto ==
    /\ now = 0
    /\ store = EmptyStore
    /\ nextID = 1
    /\ signingKey \in {NoKey, "sk"}
    /\ route = [h \in Handlers |-> <<"a", ":", "b">>]
    /\ pc = [h \in Handlers |-> "idle"]
    /\ sess = [h \in Handlers |-> NoSession]
    /\ loc = [h \in Handlers |-> NoLoc]
    /\ res = [h \in Handlers |-> NoRes]
    /\ ops = 0
    /\ retired = {}
    /\ GoIdle
    /\ \E v \in CryptoValues, a \in Names :
          env = [NoEnv EXCEPT !.phase = "plain", !.v = v, !.aad = a]

\* text, err := crypto.EncryptAndSign(v, aad)
Encrypt ==
    /\ env.phase = "plain"
    /\ LET e == EncryptAndSign(env.v, env.aad, signingKey)
       IN  env' = [env EXCEPT !.phase = IF e.err = "nil" THEN "sealed" ELSE "failed",
                              !.text = e.text, !.encErr = e.err]
    /\ UNCHANGED <<storeVars, goVars>>

\* somebody changes the text before it comes back
Edit(kind) ==
    /\ env.phase = "sealed"
    /\ Len(env.edits) < MaxEdits
    /\ kind = "sig" => signingKey # NoKey
    /\ env' = [env EXCEPT !.text = Tampered(@, kind, env.aad, signingKey),
                           !.edits = Append(@, kind)]
    /\ UNCHANGED <<storeVars, goVars>>

\* err := crypto.DecryptAndVerify(text, &dest, aad)
Decrypt(a) ==
    /\ env.phase = "sealed"
    /\ env' = [env EXCEPT !.phase = "opened", !.daad = a,
                           !.out = DecryptAndVerify(env.text, a, signingKey)]
    /\ UNCHANGED <<storeVars, goVars>>

NextCrypto ==
    \/ Encrypt
    \/ \E kind \in TextEdits : Edit(kind)
    \/ \E a \in Names : Decrypt(a)

SpecCrypto == InitCrypto /\ [][NextCrypto]_vars

\* ------------------- the methods of one Session, called one at a time
\* Every method holds s.mu from its first statement to its return, so a call
\* is one step.
FrameKeys == {"user", "id"}
Fields == {"id", "name", "isNew", "createdAt", "updatedAt", "expiresAt"}
Durations == {0 - Second, Second}
Caller == 0

InitSession ==
    /\ now = 0
    /\ store = EmptyStore
    /\ nextID = 1
    /\ signingKey = NoKey
    /\ route = [h \in Handlers |-> <<"a", ":", "b">>]
    /\ pc = [h \in Handlers |-> "idle"]
    /\ sess = [h \in Handlers |-> NoSession]
    /\ loc = [h \in Handlers |-> NoLoc]
    /\ res = [h \in Handlers |-> NoRes]
    /\ ops = 0
    /\ retired = {}
    /\ shared = [setName(NewSession(<<"t">>, MaxAge, 0), <<"a">>)
                    EXCEPT !.values = [k \in FrameKeys |-> Absent]]
    /\ mu = Unlocked
    /\ gpc = [g \in Goroutines |-> "done"]
    /\ snap = [g \in Goroutines |-> NoSnap]
    /\ got = [g \in Goroutines |-> Absent]
    /\ plan = [i \in Callers |-> "user"]
    /\ env = NoEnv

Call ==
    /\ ops < MaxSteps
    /\ ops' = ops + 1
    /\ UNCHANGED <<now, store, nextID, signingKey, route, pc, sess, loc, res, retired,
                   mu, gpc, snap, plan, env>>

CallSet(k, v) == Call /\ shared' = Set(shared, k, v, now) /\ got' = got
CallDelete(k) == Call /\ shared' = Delete(shared, k, now) /\ got' = got
CallRefresh(maxAge) == Call /\ shared' = Refresh(shared, maxAge, now) /\ got' = got
CallExtend(delta) == Call /\ shared' = Extend(shared, delta, now) /\ got' = got
CallGet(k) ==
    Call /\ got' = [got EXCEPT ![Caller] = Get(shared, k)] /\ shared' = shared
\* ID, Name, IsNew, CreatedAt, UpdatedAt, ExpiresAt: return s.<field>
CallRead(f) ==
    Call /\ got' = [got EXCEPT ![Caller] = [t |-> f, v |-> shared[f]]] /\ shared' = shared

\* time.Now() moves on between two calls
Clock ==
    /\ ops < MaxSteps
    /\ ops' = ops + 1
    /\ now' = now + 1
    /\ UNCHANGED <<store, nextID, signingKey, route, pc, sess, loc, res, retired,
                   goVars, env>>

NextSession ==
    \/ \E k \in FrameKeys, v \in Vals : CallSet(k, v)
    \/ \E k \in FrameKeys : CallDelete(k)
    \/ \E d \in Durations : CallRefresh(d)
    \/ \E d \in Durations : CallExtend(d)
    \/ \E k \in FrameKeys : CallGet(k)
    \/ \E f \in Fields : CallRead(f)
    \/ Clock

SpecSession == InitSession /\ [][NextSession]_vars

\* --------------- Save and RotateID by goroutines sharing one *Session
\* The handlers are given the same *Session (shared).  Every accessor call
\* locks s.mu on its own, so what a method reads in one call and what it
\* reads in the next are separate steps.
InitInstance ==
    /\ now = 0
    /\ store = EmptyStore
    /\ nextID = 2
    /\ signingKey \in {NoKey, "sk"}
    /\ route = [h \in Handlers |-> <<"a", ":", "b">>]
    /\ pc = [h \in Handlers |-> "idle"]
    /\ sess = [h \in Handlers |-> NoSession]
    /\ loc = [h \in Handlers |-> NoLoc]
    /\ res = [h \in Handlers |-> NoRes]
    /\ ops = 0
    /\ retired = {}
    /\ shared = setName(setIsNew(NewSession(GenerateSessionID(1), MaxAge, 0), TRUE),
                        <<"a", ":", "b">>)
    /\ mu = Unlocked
    /\ gpc = [g \in Goroutines |-> "done"]
    /\ snap = [g \in Goroutines |-> NoSnap]
    /\ got = [g \in Goroutines |-> Absent]
    /\ plan = [i \in Callers |-> "user"]
    /\ env = NoEnv

instVars == <<signingKey, route, sess, mu, gpc, snap, got, plan, env>>

Step(h, from, to) == pc[h] = from /\ pc' = [pc EXCEPT ![h] = to]

\* Save: key := s.redisKey(session.Name(), session.ID());
\* ttl := time.Until(session.ExpiresAt()); if ttl <= 0 return
InstSaveKey(h) ==
    /\ Begin(h)
    /\ LET ttl == shared.expiresAt - now
       IN  IF ttl <= 0
           THEN Finish(h, [NoRes EXCEPT !.op = "Save", !.err = "ErrSessionExpired"])
           ELSE /\ pc' = [pc EXCEPT ![h] = "save_enc"]
                /\ loc' = [loc EXCEPT ![h] =
                              [NoLoc EXCEPT !.key = redisKey(shared.name, shared.id),
                                            !.ttl = ttl]]
                /\ res' = [res EXCEPT ![h] = NoRes]
    /\ UNCHANGED <<now, store, nextID, retired, shared, instVars>>

\* Save: s.crypto.EncryptAndSign(session, []byte(session.Name()))
InstSaveSeal(h) ==
    /\ pc[h] = "save_enc"
    /\ LET enc == EncryptAndSign(shared, shared.name, signingKey)
       IN  IF enc.err # "nil"
           THEN Finish(h, [NoRes EXCEPT !.op = "Save", !.err = enc.err])
           ELSE /\ pc' = [pc EXCEPT ![h] = "save_set"]
                /\ loc' = [loc EXCEPT ![h].text = enc.text]
                /\ res' = res
    /\ UNCHANGED <<now, store, nextID, ops, retired, shared, instVars>>

\* Save: s.client.Set(ctx, key, encrypted, ttl), then the cookie
InstSaveSet(h) ==
    /\ pc[h] = "save_set"
    /\ \E up \in BOOLEAN :
          IF up
          THEN /\ store' = redisSet(store, loc[h].key,
                                    Entry(loc[h].text, loc[h].ttl, now, "Save", shared))
               /\ Finish(h, [NoRes EXCEPT !.op = "Save", !.cookie = shared.id])
          ELSE /\ store' = store
               /\ Finish(h, [NoRes EXCEPT !.op = "Save", !.err = "ErrConn"])
    /\ UNCHANGED <<now, nextID, ops, retired, shared, instVars>>

\* RotateID: oldID := session.ID(); oldKey := s.redisKey(session.Name(), oldID)
InstRotateRead(h) ==
    /\ Begin(h)
    /\ nextID <= MaxIDs
    /\ pc' = [pc EXCEPT ![h] = "rot_setid"]
    /\ loc' = [loc EXCEPT ![h] =
                  [NoLoc EXCEPT !.oldID = shared.id,
                                !.oldKey = redisKey(shared.name, shared.id)]]
    /\ res' = [res EXCEPT ![h] = NoRes]
    /\ UNCHANGED <<now, store, nextID, retired, shared, instVars>>

\* RotateID: newID := GenerateSessionID(); session.setID(newID);
\* newKey := s.redisKey(session.Name(), newID); ttl with its fallback
InstRotateSetID(h) ==
    /\ Step(h, "rot_setid", "rot_enc")
    /\ nextID <= MaxIDs
    /\ nextID' = nextID + 1
    /\ shared' = setID(shared, GenerateSessionID(nextID))
    /\ loc' = [loc EXCEPT ![h].key = redisKey(shared.name, GenerateSessionID(nextID)),
                          ![h].ttl = RotateTTL(shared, now)]
    /\ UNCHANGED <<now, store, res, ops, retired, instVars>>

\* RotateID: s.crypto.EncryptAndSign(session, []byte(session.Name()))
InstRotateSeal(h) ==
    /\ pc[h] = "rot_enc"
    /\ LET enc == EncryptAndSign(shared, shared.name, signingKey)
       IN  IF enc.err # "nil"
           THEN Finish(h, [NoRes EXCEPT !.op = "RotateID", !.err = enc.err,
                                        !.oldID = loc[h].oldID])
           ELSE /\ pc' = [pc EXCEPT ![h] = "rot_exec"]
                /\ loc' = [loc EXCEPT ![h].text = enc.text]
                /\ res' = res
    /\ UNCHANGED <<now, store, nextID, ops, retired, shared, instVars>>

\* RotateID: pipe.Set(newKey); pipe.Del(oldKey); pipe.Exec(ctx), then the
\* cookie
InstRotateExec(h) ==
    /\ pc[h] = "rot_exec"
    /\ LET l == loc[h]
           batches == TxPipeline(l.key, Entry(l.text, l.ttl, now, "RotateID", shared), l.oldKey)
       IN  \E up \in BOOLEAN :
           IF up
           THEN /\ store' = ApplyBatch(store, batches[1])
                /\ retired' = retired \cup {<<shared.name, l.oldID>>}
                /\ Finish(h, [NoRes EXCEPT !.op = "RotateID", !.oldID = l.oldID,
                                            !.cookie = shared.id])
           ELSE /\ UNCHANGED <<store, retired>>
                /\ Finish(h, [NoRes EXCEPT !.op = "RotateID", !.err = "ErrConn",
                                            !.oldID = l.oldID])
    /\ UNCHANGED <<now, nextID, ops, shared, instVars>>

NextInstance ==
    \/ \E h \in Handlers : InstSaveKey(h)
    \/ \E h \in Handlers : InstSaveSeal(h)
    \/ \E h \in Handlers : InstSaveSet(h)
    \/ \E h \in Handlers : InstRotateRead(h)
    \/ \E h \in Handlers : InstRotateSetID(h)
    \/ \E h \in Handlers : InstRotateSeal(h)
    \/ \E h \in Handlers : InstRotateExec(h)
    \/ Tick

SpecInstance == InitInstance /\ [][NextInstance]_vars

\* ------------------------------------------------------------- claims
Inputs == CookieVals \cup {NoCookie}
KeyOf(h, cookie) == redisKey(route[h], cookie)
\* New has returned to handler h a Session it created.
Fresh(h) ==
    /\ pc[h] = "idle"
    /\ res[h].op = "New"
    /\ res[h].err = "nil"
    /\ sess[h].isNew
    /\ sess[h].values = EmptyValues
    /\ sess[h].name = route[h]
    /\ sess[h].expiresAt = now + MaxAge

\* What every New(h, ...) step satisfies whatever the cookie: h was idle,
\* clock and store stay as they are, and so do the other handlers' sessions,
\* positions and results. The formulas about New state it first, so that
\* the steps that cannot be a New of h are set aside before the cookies are
\* enumerated.
StepOfNew(h) ==
    /\ pc[h] = "idle"
    /\ pc'[h] = "load_del" \/ (pc'[h] = "idle" /\ res'[h].op = "New")
    /\ UNCHANGED <<now, store>>
    /\ \A g \in Handlers \ {h} :
          sess'[g] = sess[g] /\ pc'[g] = pc[g] /\ res'[g] = res[g]

\* C1: the step in which RotateID's pipeline reaches the server never leaves
\* a gap: if the old key held an entry before the step, the old key or the
\* new key holds one after it (the server sets the new key and deletes the
\* old one in one step).
C1_RotateNeverExposesGap ==
    [][\A h \in Handlers :
          (RotateExec(h) /\ Has(store, now, loc[h].oldKey))
              => (Has(store', now', loc[h].oldKey) \/ Has(store', now', loc[h].key))]_vars

\* C1 witness: a rotation of a stored session has completed; the new key
\* holds the entry and the old key is gone.
C1_Witness ==
    \E h \in Handlers :
        /\ res[h].op = "RotateID" /\ res[h].err = "nil" /\ res[h].hadOld
        /\ Has(store, now, redisKey(sess[h].name, sess[h].id))
        /\ ~Has(store, now, redisKey(sess[h].name, res[h].oldID))

\* C2: once a RotateID has completed, resolving the identifier it replaced
\* never returns a stored session again.
C2_OldIdentifierStaysInvalid ==
    \A p \in retired : load(store, now, p[1], p[2], signingKey, TRUE).err # "nil"

\* C3: when RotateID has returned an error, the session still carries the
\* identifier it had before the call.
C3_IDUnchangedOnError ==
    \A h \in Handlers :
        (res[h].op = "RotateID" /\ res[h].err # "nil") => sess[h].id = res[h].oldID

\* C4: when load's fetch fails with a connectivity error, New returns that
\* error (and not a created session).
C4_ConnectivityErrorPropagates ==
    \A h \in Handlers :
        (res[h].op = "New" /\ res[h].loadErr = "ErrConn") => res[h].err = "ErrConn"

\* C5: a resolve without a cookie, or whose load fails for a reason in the
\* content of the store (not found, expired, undecodable, too short, bad
\* signature, failed open, malformed document), returns no error and a
\* session with isNew, no values, the requested name and
\* expiresAt = now + MaxAge.
C5_ContentFailureYieldsNewSession ==
    [][\A h \in Handlers :
          /\ (StepOfNew(h) /\ ~(pc'[h] = "load_del" \/ Fresh(h)')) =>
                \A c \in Inputs :
                   (c = NoCookie
                    \/ load(store, now, route[h], c, signingKey, TRUE).err # "nil")
                      => ~New(h, route[h], c, TRUE)
          /\ loadDel(h) => Fresh(h)']_vars

\* C5 witness: New created a session after the stored text failed its
\* signature check.
C5_Witness ==
    \E h \in Handlers : Fresh(h) /\ res[h].loadErr = "ErrSignatureInvalid"

\* C6: a resolve under one name never returns an entry that was persisted
\* under another name, whatever identifier the cookie carries.
C6_NamespaceIsolation ==
    [][\A h \in Handlers :
          (StepOfNew(h) /\ res'[h].op = "New" /\ res'[h].loadErr = "nil") =>
             \A c \in CookieVals : \A up \in BOOLEAN :
                New(h, route[h], c, up)
                   => /\ KeyOf(h, c) \in DOMAIN store
                      /\ store[KeyOf(h, c)].src.name = route[h]]_vars

\* C6 witness: under a signing key, a resolve hit the key of an entry
\* persisted under another name, the open failed and New created a session.
C6_Witness ==
    \E h \in Handlers :
        /\ signingKey # NoKey
        /\ Fresh(h) /\ res[h].loadErr = "ErrEncryptionFailed"
        /\ \E k \in DOMAIN store : store[k].by = "Save" /\ store[k].src.name # route[h]

\* C7: a Save called with expiresAt - now <= 0 returns ErrSessionExpired,
\* leaves the store as it is and sets no cookie; otherwise what it sends to
\* the store is the encrypted session under prefix+name+":"+id with
\* ttl = expiresAt - now, and the entry its Set leaves has that ttl.
C7_SaveNeverWritesExpired ==
    [][\A h \in Handlers :
          /\ Save(h) =>
                IF sess[h].expiresAt - now <= 0
                THEN /\ pc'[h] = "idle"
                     /\ res'[h].err = "ErrSessionExpired"
                     /\ res'[h].cookie = NoCookie
                     /\ store' = store
                ELSE pc'[h] = "save_set" =>
                        /\ loc'[h].key = Prefix \o sess[h].name \o <<":">> \o sess[h].id
                        /\ loc'[h].ttl = sess[h].expiresAt - now
                        /\ DecryptAndVerify(loc'[h].text, sess[h].name, signingKey).err = "nil"
          /\ (SaveSet(h) /\ res'[h].err = "nil") =>
                /\ loc[h].ttl > 0
                /\ Has(store', now', loc[h].key)
                /\ store'[loc[h].key].text = loc[h].text
                /\ store'[loc[h].key].exp - now = loc[h].ttl]_vars

\* C7 witness: a Save was refused with ErrSessionExpired.
C7_Witness ==
    \E h \in Handlers :
        /\ res[h].op = "Save" /\ res[h].err = "ErrSessionExpired"
        /\ sess[h].expiresAt - now <= 0

\* C8: a resolve at a time later than the expiresAt a Save persisted yields
\* a new session without values.
C8_ExpiredEntryYieldsNewSession ==
    [][\A h \in Handlers :
          /\ StepOfNew(h) =>
                \A c \in CookieVals : \A up \in BOOLEAN :
                   (/\ KeyOf(h, c) \in DOMAIN store
                    /\ store[KeyOf(h, c)].by = "Save"
                    /\ now > store[KeyOf(h, c)].src.expiresAt
                    /\ New(h, route[h], c, up))
                       => \/ pc'[h] = "load_del"
                          \/ sess'[h].isNew /\ sess'[h].values = EmptyValues
          /\ loadDel(h) => (sess'[h].isNew /\ sess'[h].values = EmptyValues)]_vars

\* C8 witness: load found a stored session past its expiresAt and New
\* created a session instead.
C8_Witness ==
    \E h \in Handlers : Fresh(h) /\ res[h].loadErr = "ErrSessionExpired"

\* C9: resolving the identifier of a saved session under its name before it
\* expires returns isNew = false, that identifier and exactly the key/value
\* mapping that was saved.
C9_SaveThenResolveRoundTrip ==
    [][\A h \in Handlers : \A c \in Issued :
          (/\ New(h, route[h], c, TRUE)
           /\ Has(store, now, KeyOf(h, c))
           /\ store[KeyOf(h, c)].by = "Save"
           /\ store[KeyOf(h, c)].src.name = route[h]
           /\ now < store[KeyOf(h, c)].src.expiresAt)
              => /\ ~sess'[h].isNew
                 /\ sess'[h].id = c
                 /\ sess'[h].values = store[KeyOf(h, c)].src.values]_vars

\* C10: whenever a resolve returns a stored session, now < expiresAt, so a
\* Save of that session at the same instant is not refused as expired.
C10_ResolveAndSaveAgree ==
    [][\A h \in Handlers : \A c \in CookieVals : \A up \in BOOLEAN :
          (/\ New(h, route[h], c, up)
           /\ res'[h].op = "New"
           /\ res'[h].loadErr = "nil")
              => /\ now < sess'[h].expiresAt
                 /\ SavePrepare(sess'[h], now, signingKey).err # "ErrSessionExpired"]_vars

\* An identifier that is not empty, that no earlier call of the generator
\* returned, and under which the store st holds no key for any name.
FreshID(id, st) ==
    /\ id # NoID
    /\ id \notin Issued
    /\ \A n \in Names : redisKey(n, id) \notin DOMAIN st

\* C11: whenever New returns a session it created, and whenever RotateID
\* runs, the session's identifier is not empty, differs from the cookie
\* value that came in (for RotateID: from the identifier it replaces), was
\* never issued before and is the identifier of no key in the store.
\* (Each of these steps takes an identifier from the generator.)
C11_NewIdentifierIsFresh ==
    [][nextID' # nextID => \A h \in Handlers :
          /\ (StepOfNew(h) /\ pc'[h] = "idle" /\ sess'[h].isNew) =>
                \A c \in Inputs :
                   ~(FreshID(sess'[h].id, store') /\ sess'[h].id # c)
                      => \A up \in BOOLEAN : ~New(h, route[h], c, up)
          /\ loadDel(h) =>
                /\ FreshID(sess'[h].id, store')
                /\ redisKey(loc[h].name, sess'[h].id) # loc[h].key
          /\ RotateID(h) =>
                (FreshID(sess'[h].id, store') /\ sess'[h].id # sess[h].id)]_vars

\* C11 witness: one handler rotated a stored session, another then sent the
\* replaced identifier, found nothing and was given a session with an
\* identifier of its own.
C11_Witness ==
    \E h, g \in Handlers :
        /\ res[h].op = "RotateID" /\ res[h].err = "nil" /\ res[h].hadOld
        /\ Fresh(g) /\ res[g].loadErr = "ErrSessionNotFound"
        /\ sess[g].id \notin {sess[h].id, res[h].oldID}

\* C12: the ttl RotateID sends with the new key is the session's remaining
\* lifetime expiresAt - now at the time of the call, whatever the session's
\* state, and the entry its pipeline leaves under the new key has that ttl.
C12_RotatePreservesLifetime ==
    [][\A h \in Handlers :
          /\ (RotateID(h) /\ pc'[h] = "rot_exec") =>
                loc'[h].ttl = sess[h].expiresAt - now
          /\ (RotateExec(h) /\ res'[h].op = "RotateID" /\ res'[h].err = "nil") =>
                /\ loc[h].key \in DOMAIN store'
                /\ store'[loc[h].key].ttl = loc[h].ttl]_vars

\* Handler h's last call was a Destroy that returned nil, and the key of
\* the session it destroyed is not in the store.
Destroyed(h) ==
    /\ res[h].op = "Destroy" /\ res[h].err = "nil"
    /\ redisKey(sess[h].name, sess[h].id) \notin DOMAIN store

\* C13: a Destroy that returns nil leaves the store as it was minus the
\* session's key (so as it was when the key was absent, and a second Destroy
\* changes nothing); its only error is the server's, never the absence of
\* the key; the key then stays absent through every step that is not the
\* Set of a Save of that session; and resolving the destroyed identifier
\* while it is absent yields a new session.
C13_DestroyIdempotent ==
    [][\A h \in Handlers :
          LET key == redisKey(sess[h].name, sess[h].id)
          IN  /\ Destroy(h) =>
                    IF res'[h].err = "nil"
                    THEN /\ store' = redisDel(store, key)
                         /\ key \notin DOMAIN store'
                         /\ redisDel(store', key) = store'
                         /\ key \notin DOMAIN store => store' = store
                    ELSE res'[h].err = "ErrConn" /\ store' = store
              /\ (/\ Destroyed(h)
                  /\ \A g \in Handlers : ~(SaveSet(g) /\ loc[g].key = key))
                    => key \notin DOMAIN store'
              /\ Destroyed(h) =>
                    \A g \in Handlers :
                       (route[g] = sess[h].name /\ New(g, route[g], sess[h].id, TRUE))
                          => Fresh(g)']_vars

\* C13 witness: two handlers held the same stored session and both have
\* destroyed it: the second Destroy found no key and returned nil.
C13_Witness ==
    \E h, g \in Handlers :
        /\ h # g /\ Destroyed(h) /\ Destroyed(g)
        /\ sess[h].id = sess[g].id /\ sess[h].name = sess[g].name
        /\ ~sess[g].isNew

\* What a reader gets from the serialized form of the in-memory session s.
Payload(s) == UnmarshalJSON(MarshalJSON(s))

\* C14: the Set of a Save leaves under the session's key exactly the payload
\* of the copy being saved, whatever the key held before (a key absent from
\* that copy is absent from the entry), and leaves every other key alone.
C14_SaveLastWriterWins ==
    [][\A h \in Handlers :
          (SaveSet(h) /\ res'[h].err = "nil") =>
             LET key == redisKey(sess[h].name, sess[h].id)
             IN  /\ DOMAIN store' = DOMAIN store \cup {key}
                 /\ \A k \in DOMAIN store \ {key} : store'[k] = store[k]
                 /\ DecryptAndVerify(store'[key].text, sess[h].name, signingKey)
                       = [err |-> "nil", session |-> Payload(sess[h])]]_vars

\* C14 witness: two handlers hold the same identifier with different
\* values, both have saved, and the entry is the payload of one of them
\* and not that of the other.
C14_Witness ==
    \E h, g \in Handlers :
        LET key == redisKey(sess[h].name, sess[h].id)
        IN  /\ h # g /\ sess[h].id = sess[g].id /\ sess[h].name = sess[g].name
            /\ res[h].op = "Save" /\ res[h].err = "nil"
            /\ res[g].op = "Save" /\ res[g].err = "nil"
            /\ Payload(sess[h]).values # Payload(sess[g]).values
            /\ key \in DOMAIN store
            /\ DecryptAndVerify(store[key].text, sess[h].name, signingKey).session
                  = Payload(sess[g])

\* Caller i's Get has returned.
HasRead(i) == gpc[i] \in {"get_unlock", "done"}
\* Caller j's Set has written the map.
HasStored(j) == gpc[j] \notin {"set", "set_load", "set_store"}
DistinctKeys == \A i, j \in Callers : i # j => CallerKey(i) # CallerKey(j)
SameKey == \A i \in Callers : CallerKey(i) = "user"

\* C15: when the callers use pairwise distinct keys, every caller's Get
\* returns the value it set, and once all have finished the map holds every
\* caller's key with that caller's value.
C15_DistinctKeysLoseNothing ==
    DistinctKeys =>
        /\ \A i \in Callers : HasRead(i) => got[i] = IntVal(i)
        /\ (\A i \in Callers : gpc[i] = "done") =>
               \A i \in Callers : shared.values[CallerKey(i)] = IntVal(i)

\* C15 witness: every caller used a key of its own and all have finished.
C15_Witness ==
    /\ \A i \in Callers : plan[i] = "own" /\ gpc[i] = "done"
    /\ \A i \in Callers : shared.values[ToString(i)] = IntVal(i)

Content(s) ==
    [id |-> s.id, name |-> s.name, values |-> s.values,
     createdAt |-> s.createdAt, updatedAt |-> s.updatedAt, expiresAt |-> s.expiresAt]

\* C17: a text EncryptAndSign produced, unchanged and opened with the same
\* associated data, with or without a signing key, opens without error and
\* yields the value that was sealed.
C17_EnvelopeRoundTrip ==
    (env.phase = "opened" /\ env.edits = <<>> /\ env.daad = env.aad) =>
        /\ env.out.err = "nil"
        /\ Content(env.out.session) = Content(env.v)

\* Changes of the bytes of a text (the other two kinds put another sealed
\* text in its place).
ByteEdits == TextEdits \ {"json", "otherkey"}
EditsMade == {env.edits[n] : n \in 1..Len(env.edits)}

\* C18: a text EncryptAndSign produced, with bytes changed, appended or cut
\* off, fails to open with ErrSignatureInvalid or ErrInvalidSessionData; it
\* never opens to content other than what was sealed.
C18_TamperDetection ==
    (/\ env.phase = "opened" /\ env.daad = env.aad
     /\ env.edits # <<>> /\ EditsMade \subseteq ByteEdits) =>
        /\ env.out.err \in {"ErrSignatureInvalid", "ErrInvalidSessionData"}
        /\ env.out.err = "nil" =>
              Content(env.out.session) = Content(Payload(env.v))

\* C19: DecryptAndVerify returns ErrInvalidSessionData for a text that does
\* not decode or decodes to fewer than (32 if signing) + nonce + overhead + 1
\* bytes; otherwise ErrSignatureInvalid when the signature does not match;
\* otherwise ErrEncryptionFailed when the open fails for whatever reason;
\* and no error outside these classes, but for the decoding error of a
\* plaintext that opened and is no document of the destination's form.
C19_FailureClassification ==
    env.phase = "opened" =>
        LET t == env.text
            minLength == (IF signingKey # NoKey THEN SigLen ELSE 0)
                            + NonceSize + Overhead + 1
            err == env.out.err
        IN  /\ err \in {"nil", "ErrInvalidSessionData", "ErrSignatureInvalid",
                         "ErrEncryptionFailed", "ErrUnmarshal"}
            /\ IF ~t.b64 \/ t.len < minLength THEN err = "ErrInvalidSessionData"
               ELSE IF signingKey # NoKey /\ ~verify(signingKey, t.nonce, t.box, t.sig)
                    THEN err = "ErrSignatureInvalid"
               ELSE IF ~Open(EncKey, t.nonce, t.box, env.daad)
                    THEN err = "ErrEncryptionFailed"
               ELSE TRUE

\* C20: when the entry load fetches verifies and decrypts and its expiresAt
\* has passed, load goes on to delete the key it fetched; the caller then
\* receives a session New created, with an identifier of its own, whether
\* or not the Del got through; and when the Del reached the server the key
\* is absent after the resolve.
C20_LazyCleanupOnResolve ==
    [][\A h \in Handlers :
          /\ StepOfNew(h) =>
                \A c \in CookieVals :
                   (/\ Has(store, now, KeyOf(h, c))
                    /\ LET d == DecryptAndVerify(store[KeyOf(h, c)].text, route[h], signingKey)
                       IN  d.err = "nil" /\ now > d.session.expiresAt
                    /\ New(h, route[h], c, TRUE))
                       => (pc'[h] = "load_del" /\ loc'[h].key = KeyOf(h, c))
          /\ loadDel(h) => (Fresh(h)' /\ FreshID(sess'[h].id, store'))
          /\ loadDelUp(h, TRUE) =>
                /\ loc[h].key \notin DOMAIN store'
                /\ \A k \in DOMAIN store \ {loc[h].key} :
                      k \in DOMAIN store' /\ store'[k] = store[k]]_vars

\* C20 witness: a resolve found a stored session past its expiresAt, the
\* caller holds a created session and the store holds no key any more.
C20_Witness ==
    \E h \in Handlers :
        /\ Fresh(h) /\ res[h].loadErr = "ErrSessionExpired"
        /\ store = EmptyStore
        /\ \E g \in Handlers : res[g].op = "Save" /\ res[g].err = "nil"

Others(k) == FrameKeys \ {k}
SameBut(s, t, changed) == \A f \in Fields \ changed : s[f] = t[f]
SameValues(s, t, ks) == \A k \in ks : s.values[k] = t.values[k]

\* C21: Get and the read accessors leave every field of the session as it
\* was; Set(k, v) and Delete(k) change the entry at k and updatedAt, and no
\* other key or field; Refresh(ttl) makes expiresAt now + ttl and
\* Extend(delta) makes it the previous expiresAt + delta, each changing
\* expiresAt and updatedAt and nothing else.
C21_SessionOperationFrames ==
    [][/\ \A k \in FrameKeys : CallGet(k) => shared' = shared
       /\ \A f \in Fields : CallRead(f) => shared' = shared
       /\ \A k \in FrameKeys : \A v \in Vals :
             CallSet(k, v) =>
                /\ shared'.values[k] = v /\ shared'.updatedAt = now
                /\ SameBut(shared', shared, {"updatedAt"})
                /\ SameValues(shared', shared, Others(k))
       /\ \A k \in FrameKeys :
             CallDelete(k) =>
                /\ shared'.values[k] = Absent /\ shared'.updatedAt = now
                /\ SameBut(shared', shared, {"updatedAt"})
                /\ SameValues(shared', shared, Others(k))
       /\ \A d \in Durations :
             CallRefresh(d) =>
                /\ shared'.expiresAt = now + d /\ shared'.updatedAt = now
                /\ SameBut(shared', shared, {"updatedAt", "expiresAt"})
                /\ SameValues(shared', shared, FrameKeys)
       /\ \A d \in Durations :
             CallExtend(d) =>
                /\ shared'.expiresAt = shared.expiresAt + d /\ shared'.updatedAt = now
                /\ SameBut(shared', shared, {"updatedAt", "expiresAt"})
                /\ SameValues(shared', shared, FrameKeys)]_vars

\* C21 witness: after Set on both keys at different times, a Delete, an
\* Extend and a Get, one key holds its value, the other is gone, and the
\* expiry lies beyond the one the session was created with.
C21_Witness ==
    /\ shared.values["user"] = Alice /\ shared.values["id"] = Absent
    /\ got[Caller] = Alice
    /\ shared.updatedAt > shared.createdAt
    /\ shared.expiresAt = shared.createdAt + MaxAge + Second

SessionKey(h) == redisKey(sess[h].name, sess[h].id)
\* Handler h holds a session New created and the store has no key for it.
InMemoryOnly(h) ==
    /\ HasSession(h) /\ sess[h].isNew
    /\ SessionKey(h) \notin DOMAIN store

\* C22: a resolve writes nothing to the store.  A step of New up to load's
\* Del leaves the store as it is; load's Del removes at most the key load
\* fetched and leaves every other entry as it is; the session New creates
\* has no key in the store; and the key of a created session that has none
\* appears only in the step in which a Save's SET or a RotateID's pipeline
\* on that key reaches the server.  (New starts from an idle handler and is
\* counted as an operation.)
C22_ResolveWritesNothing ==
    [][/\ store' # store =>
             \A h \in Handlers :
                /\ (pc[h] = "idle" /\ ops' # ops) =>
                      \A c \in Inputs : \A up \in BOOLEAN : ~New(h, route[h], c, up)
                /\ loadDel(h) =>
                      /\ DOMAIN store' = DOMAIN store \ {loc[h].key}
                      /\ \A k \in DOMAIN store' : store'[k] = store[k]
                /\ (/\ InMemoryOnly(h) /\ sess'[h] = sess[h]
                    /\ SessionKey(h) \in DOMAIN store')
                      => \E g \in Handlers :
                            /\ SaveSet(g) \/ RotateExec(g)
                            /\ loc[g].key = SessionKey(h)
                            /\ res'[g].err = "nil"
       /\ nextID' # nextID =>
             \A h \in Handlers :
                ((StepOfNew(h) /\ pc'[h] = "idle" /\ sess'[h].isNew) \/ loadDel(h))
                   => InMemoryOnly(h)']_vars

\* C22 witness: a resolve whose cookie named no stored key returned a
\* created session that is in memory only, and the entry another handler
\* saved is in the store as that Save wrote it.
C22_Witness ==
    \E h, g \in Handlers :
        /\ h # g /\ Fresh(h) /\ res[h].loadErr = "ErrSessionNotFound"
        /\ InMemoryOnly(h)
        /\ SessionKey(g) \in DOMAIN store
        /\ store[SessionKey(g)].by = "Save"
        /\ store[SessionKey(g)].src = sess[g]

\* The state InitCleanup starts from, as Spec reaches it.
CleanupStartReached ==
    /\ now = RotatedAt
    /\ sess["h1"] = RotatedSession(route["h1"])
    /\ sess["h2"] = NoSession
    /\ DOMAIN store = {SessionKey("h1")}
    /\ store[SessionKey("h1")] =
          Entry(EncryptAndSign(sess["h1"], sess["h1"].name, signingKey).text,
                Second, RotatedAt, "RotateID", sess["h1"])
    /\ res["h1"] = [NoRes EXCEPT !.op = "RotateID", !.oldID = GenerateSessionID(1),
                                  !.cookie = RotatedID]
    /\ res["h2"] = NoRes
    /\ retired = {<<route["h1"], GenerateSessionID(1)>>}
    /\ nextID = 3
    /\ \A h \in Handlers : pc[h] = "idle" /\ loc[h] = NoLoc

\* The entry under key, opened under name, is a session whose expiresAt has
\* not passed.
LiveEntry(st, t, key, name, sk) ==
    /\ Has(st, t, key)
    /\ LET d == DecryptAndVerify(st[key].text, name, sk)
       IN  d.err = "nil" /\ ~After(t, d.session.expiresAt)

\* C23: the Del that load issues after it found an expired entry never
\* removes an entry that, at the time of the Del, is the entry of a session
\* whose expiresAt has not passed.
C23_CleanupSparesLiveEntry ==
    [][\A h \in Handlers :
          loadDelUp(h, TRUE)
             => ~LiveEntry(store, now, loc[h].key, loc[h].name, signingKey)]_vars

\* The entry under key k opens under one of the names to a session whose
\* name is that name and whose identifier, with that name, makes k.
KeyMatchesPayload(st, k, sk) ==
    \E n \in Names :
        LET d == DecryptAndVerify(st[k].text, n, sk)
        IN  /\ d.err = "nil"
            /\ d.session.name = n
            /\ k = redisKey(n, d.session.id)

\* C24: every entry Save or RotateID wrote is stored under the key made of
\* the name and the identifier in its payload, also when the handlers call
\* Save and RotateID on one shared Session.
C24_KeyMatchesPayload ==
    \A k \in DOMAIN store :
        store[k].by \in {"Save", "RotateID"} => KeyMatchesPayload(store, k, signingKey)

\* The removal cookie: the session's name with an empty value.
RemovalCookie == <<>>

\* C25: a handler's response carries a cookie only from the step in which
\* Save's SET, RotateID's pipeline or Destroy's DEL succeeded: Save and
\* RotateID then send the session's identifier and the store holds the text
\* they wrote under its key, Destroy sends the removal cookie and the key is
\* gone; a call that returns an error sends no cookie and, where the
\* server's command failed, leaves the store as it was.
C25_CookieOnlyAfterSuccess ==
    [][\A h \in Handlers :
          /\ res'[h].cookie # NoCookie => res'[h].err = "nil"
          /\ (res'[h].cookie # NoCookie /\ res'[h] # res[h])
                => (SaveSet(h) \/ RotateExec(h) \/ Destroy(h))
          /\ SaveSet(h) =>
                IF res'[h].err = "nil"
                THEN /\ res'[h].cookie = sess[h].id
                     /\ loc[h].key \in DOMAIN store'
                     /\ store'[loc[h].key].text = loc[h].text
                ELSE res'[h].cookie = NoCookie /\ store' = store
          /\ RotateExec(h) =>
                IF res'[h].err = "nil"
                THEN /\ res'[h].cookie = sess[h].id
                     /\ loc[h].key \in DOMAIN store'
                     /\ store'[loc[h].key].text = loc[h].text
                     /\ loc[h].oldKey \notin DOMAIN store'
                ELSE res'[h].cookie = NoCookie /\ store' = store
          /\ (res'[h].op = "Destroy" /\ Destroy(h)) =>
                IF res'[h].err = "nil"
                THEN /\ res'[h].cookie = RemovalCookie
                     /\ SessionKey(h) \notin DOMAIN store'
                ELSE res'[h].cookie = NoCookie /\ store' = store]_vars

\* C25 witness: one handler's Save failed at the server and sent no cookie,
\* its session has no key; another handler's RotateID succeeded and sent
\* the new identifier, which has a key.
C25_Witness ==
    \E h, g \in Handlers :
        /\ h # g
        /\ res[h].op = "Save" /\ res[h].err = "ErrConn" /\ res[h].cookie = NoCookie
        /\ SessionKey(h) \notin DOMAIN store
        /\ res[g].op = "RotateID" /\ res[g].err = "nil" /\ res[g].cookie = sess[g].id
        /\ SessionKey(g) \in DOMAIN store

====
